---------------------------- MODULE Spec2Model ----------------------------
(***************************************************************************)
(* Model of finish-icloud-photos.py: the resume/finish run of the iCloud   *)
(* Photos export date fixer.  The state is the file system the run reads   *)
(* and writes, the locals of main(), the exiftool -stay_open process and   *)
(* its two pipes, and the position of main() and of run_args().            *)
(***************************************************************************)
EXTENDS Integers, Sequences, FiniteSets, TLC

(***************************************************************************)
(* Bounds of the model.                                                    *)
(***************************************************************************)
\* the largest number of export files sharing one base name
MaxPaths == 2
\* the largest number of output lines exiftool prints before "{ready}"
MaxNoise == 1
\* the number of consecutive runs of main() (outputs copied to "done" between)
MaxRuns == 2
\* the largest number of catalog files under the working directory
MaxFiles == 2

(***************************************************************************)
(* Program constants.                                                      *)
(***************************************************************************)
EXPORT_FOLDER_SUBSTRING == "iCloud Photos"
DONE_OUTPUT_DIRNAME == "NEW_IMAGES_SORTED"
FINISH_OUTPUT_DIRNAME == "NEW_IMAGES_SORTED_FINISHING"
VIDEO_EXTS == {".mov", ".mp4", ".m4v", ".avi", ".mts", ".m2ts", ".3gp", ".3gpp"}
CSV_REQUIRED_COLUMNS == {"imgName", "originalCreationDate"}
\* len(parts[-1]) <= 5
TZ_MAX_LEN == 5
READY_MARKER == "{ready}"
EXECUTE_MARKER == "-execute"
SKIP_LEDGERS == <<"CANNOT_BE_FOUND.csv", "BAD_DATE.csv", "EXIFTOOL_FAILED.csv">>
DUPLICATES_CSV == "DUPLICATES.csv"
CANNOT_BE_FOUND_CSV == "CANNOT_BE_FOUND.csv"
BAD_DATE_CSV == "BAD_DATE.csv"
EXIFTOOL_FAILED_CSV == "EXIFTOOL_FAILED.csv"
LedgerFiles == {DUPLICATES_CSV, CANNOT_BE_FOUND_CSV, BAD_DATE_CSV, EXIFTOOL_FAILED_CSV}

(***************************************************************************)
(* parse_icloud_date.                                                      *)
(*                                                                         *)
(* A date string is modelled by the list of its whitespace-separated       *)
(* tokens, which is what s.split() yields (the empty list for an empty or  *)
(* all-blank string).  A token is a record: a word ("w": letters only),    *)
(* a "<day>,<year>" token ("dy": a = day, b = year), an "<hour>:<minute>"  *)
(* token ("hm": a = hour, b = minute) or anything else ("x").              *)
(***************************************************************************)
Word(s) == [k |-> "w", w |-> s, a |-> 0, b |-> 0]
DayYear(d, y) == [k |-> "dy", w |-> "", a |-> d, b |-> y]
HourMin(h, m) == [k |-> "hm", w |-> "", a |-> h, b |-> m]
Other(s) == [k |-> "x", w |-> s, a |-> 0, b |-> 0]

WeekdayNames == {"Monday", "Tuesday", "Wednesday", "Thursday", "Friday",
                 "Saturday", "Sunday"}
MonthNames == <<"January", "February", "March", "April", "May", "June", "July",
                "August", "September", "October", "November", "December">>
Meridiems == {"AM", "PM"}

\* str.isalpha() of a token: only a word is made of letters alone
IsAlpha(tok) == tok.k = "w" /\ Len(tok.w) > 0
\* len() of a token; only asked of words (the `and` short-circuits)
TokLen(tok) == Len(tok.w)

IsLeap(y) == (y % 4 = 0 /\ y % 100 # 0) \/ y % 400 = 0
DaysInMonth(y, m) ==
    IF m = 2 THEN (IF IsLeap(y) THEN 29 ELSE 28)
    ELSE IF m \in {4, 6, 9, 11} THEN 30 ELSE 31
MonthNumber(name) == CHOOSE i \in 1..12 : MonthNames[i] = name

\* datetime.strptime(s, "%A %B %d,%Y %I:%M %p") on the tokens of s: the five
\* fields in this order and nothing else, the date a real calendar date.
StrptimeMatches(toks) ==
    /\ Len(toks) = 5
    /\ toks[1].k = "w" /\ toks[1].w \in WeekdayNames
    /\ toks[2].k = "w" /\ \E i \in 1..12 : MonthNames[i] = toks[2].w
    /\ toks[3].k = "dy" /\ toks[3].a \in 1..31 /\ toks[3].b \in 1..9999
    /\ toks[4].k = "hm" /\ toks[4].a \in 1..12 /\ toks[4].b \in 0..59
    /\ toks[5].k = "w" /\ toks[5].w \in Meridiems
    /\ toks[3].a <= DaysInMonth(toks[3].b, MonthNumber(toks[2].w))
\* %I with %p: 12 AM is hour 0, 12 PM is hour 12
Hour24(h, mer) == IF mer = "AM" THEN h % 12 ELSE (h % 12) + 12
Strptime(toks) ==
    [year |-> toks[3].b, month |-> MonthNumber(toks[2].w), day |-> toks[3].a,
     hour |-> Hour24(toks[4].a, toks[5].w), minute |-> toks[4].b, second |-> 0]

DigitStr == <<"0", "1", "2", "3", "4", "5", "6", "7", "8", "9">>
Pad2(n) == DigitStr[((n \div 10) % 10) + 1] \o DigitStr[(n % 10) + 1]
Pad4(n) == Pad2(n \div 100) \o Pad2(n % 100)
\* dt.strftime("%Y:%m:%d %H:%M:%S")
Strftime(dt) ==
    Pad4(dt.year) \o ":" \o Pad2(dt.month) \o ":" \o Pad2(dt.day) \o " " \o
    Pad2(dt.hour) \o ":" \o Pad2(dt.minute) \o ":" \o Pad2(dt.second)

ButLast(seq) == SubSeq(seq, 1, Len(seq) - 1)
\* lines 34-36: the last token is dropped when alphabetic and at most 5 long
DropTimezone(parts) ==
    IF Len(parts) > 0 /\ IsAlpha(parts[Len(parts)])
                      /\ TokLen(parts[Len(parts)]) <= TZ_MAX_LEN
    THEN ButLast(parts) ELSE parts
\* The result: ok = FALSE stands for the ValueError raised.
ParseIcloudDate(date_str) ==
    IF date_str = <<>> THEN [ok |-> FALSE, val |-> "empty date"]
    ELSE LET s == DropTimezone(date_str)
         IN  IF StrptimeMatches(s)
             THEN [ok |-> TRUE, val |-> Strftime(Strptime(s))]
             ELSE [ok |-> FALSE, val |-> "ValueError"]

(***************************************************************************)
(* Sample inputs.                                                          *)
(***************************************************************************)
ItemNameSeq == <<"IMG_0001.JPG", "CLIP_0002.MOV">>
ItemNames == {ItemNameSeq[k] : k \in 1..Len(ItemNameSeq)}
\* Path(name).suffix.lower()
SuffixLower(name) ==
    CASE name = "IMG_0001.JPG" -> ".jpg"
      [] name = "CLIP_0002.MOV" -> ".mov"
      [] OTHER -> ""
\* a name written with blanks around it, and a name that is only a blank
PaddedName == " CLIP_0002.MOV "
BlankName == " "
\* str.strip() on the names of the model
Strip(s) ==
    CASE s = PaddedName -> "CLIP_0002.MOV"
      [] s = BlankName -> ""
      [] OTHER -> s
\* "Monday January 2,2023 3:45 PM PST"
DateWithTz == <<Word("Monday"), Word("January"), DayYear(2, 2023),
                HourMin(3, 45), Word("PM"), Word("PST")>>
\* "Tuesday March 5,2024 10:15 AM"
DateNoTz == <<Word("Tuesday"), Word("March"), DayYear(5, 2024),
              HourMin(10, 15), Word("AM")>>
\* "n/a"
DateGarbled == <<Other("n/a")>>
RawDateSamples == {DateWithTz, DateNoTz, DateGarbled}
ExportFolderName(k) == EXPORT_FOLDER_SUBSTRING \o " Part " \o DigitStr[k + 1]
\* the k-th catalog file that rglob("*.csv") yields
CatalogPathOf(k) == ExportFolderName(k) \o "/Photo Details.csv"
CatalogPath == CatalogPathOf(1)
ExportPath(k, name) == ExportFolderName(k) \o "/" \o name
ImagesOutPath(name) == FINISH_OUTPUT_DIRNAME \o "/IMAGES/" \o name
NoTags == {}
AbsentFile == [exists |-> FALSE, partial |-> FALSE, tags |-> NoTags]
\* a file as exported: whole, its capture date tags not yet corrected
SourceFile == [exists |-> TRUE, partial |-> FALSE, tags |-> NoTags]
PartialFile == [exists |-> TRUE, partial |-> TRUE, tags |-> NoTags]
AbsentCsv == [exists |-> FALSE, rows |-> <<>>]
CsvOf(rows) == [exists |-> TRUE, rows |-> rows]
MISSING_HEADER == <<"imgName", "csvFile">>
BAD_DATE_HEADER == <<"imgName", "rawDate", "csvFile">>
EXIFTOOL_FAILED_HEADER == <<"imgName", "exifDate", "outputFile", "csvFile">>

(***************************************************************************)
(* State.                                                                  *)
(***************************************************************************)
VARIABLES
    pc,              \* position of main()
    \* ---- the file system and the environment
    exportFolders,   \* "unknown" until root.iterdir() is read, then "present"/"absent"
    exiftoolOnPath,  \* "unknown" until Popen looks it up, then "present"/"absent"
    exportFiles,     \* name -> number of files of that base name under the export
                     \* folders (-1 until the tree is walked)
    catalog,         \* the catalog .csv files, in discovery order
    doneImages,      \* names of the files in NEW_IMAGES_SORTED/IMAGES
    doneErrors,      \* ledger file name -> csv file, in NEW_IMAGES_SORTED/ERRORS
    dirsMade,        \* the two output directories exist
    imagesOut,       \* name -> file, in NEW_IMAGES_SORTED_FINISHING/IMAGES
    errorsOut,       \* ledger file name -> csv file, in NEW_IMAGES_SORTED_FINISHING/ERRORS
    \* ---- locals of main()
    done_names, skipped_names, needed_date, needed_csv, remaining, found_paths,
    duplicates, missing, bad_date, exiftool_failed, processed, skipped_dup,
    idx,             \* position of the for loop in remaining
    exif_date, ok,
    exc,             \* the exception propagating out of the try block, or "none"
    \* ---- the exiftool process and its pipes
    et,              \* "none", "alive", "dead" (exited on its own), "terminated"
    stdinPipe,       \* lines written to the process and not yet read by it
    stdoutPipe,      \* lines printed by the process and not yet read by run_args
    \* ---- history
    runNo,           \* the number of the current run of main()
    copyEvents,      \* names shutil.copy2 was called for in this run
    submits,         \* names run_args wrote a command for in this run, in order
    processedSet,    \* names counted in processed in this run
    sent,            \* every line written to the process in this run
    callReads,       \* the lines the current run_args call has read (EOF included)
    executed,        \* number of commands the process has executed in this run
    prevDuplicates,  \* the duplicated names of the previous run
    dupWrites,       \* number of times DUPLICATES.csv was written in this run
    closeLog,        \* what close() did in this run, in order
    copyLog,         \* [src, dst] of every shutil.copy2 call of this run
    copyDone,        \* names whose safe_copy call returned in this run
    stampLog,        \* the files the process was told to rewrite and did, in this run
    \* ---- parse_icloud_date on its own
    dateIn, dateOut, datePc

fsVars == <<exportFolders, exiftoolOnPath, exportFiles, catalog, doneImages,
            doneErrors, dirsMade, imagesOut, errorsOut>>
scanVars == <<done_names, skipped_names, needed_date, needed_csv, remaining,
              found_paths, duplicates>>
tallyVars == <<missing, bad_date, exiftool_failed, processed, skipped_dup>>
loopVars == <<idx, exif_date, ok, exc>>
etVars == <<et, stdinPipe, stdoutPipe>>
histVars == <<runNo, copyEvents, submits, processedSet, sent, callReads,
              executed, prevDuplicates, dupWrites>>
stepVars == <<closeLog, copyLog, copyDone, stampLog>>
dateVars == <<dateIn, dateOut, datePc>>
vars == <<pc, fsVars, scanVars, tallyVars, loopVars, etVars, histVars, stepVars,
          dateVars>>

EmptyMap == [n \in {} |-> <<>>]
Range(seq) == {seq[k] : k \in 1..Len(seq)}
\* the first column of the rows
Keys(rows) == {rows[k][1] : k \in 1..Len(rows)}

\* The locals of main() before main() has assigned them.
FreshLocals ==
    /\ done_names = {} /\ skipped_names = {}
    /\ needed_date = EmptyMap /\ needed_csv = EmptyMap
    /\ remaining = <<>> /\ found_paths = EmptyMap /\ duplicates = EmptyMap
    /\ missing = <<>> /\ bad_date = <<>> /\ exiftool_failed = <<>>
    /\ processed = 0 /\ skipped_dup = 0
    /\ idx = 0 /\ exif_date = "" /\ ok = FALSE /\ exc = "none"
    /\ et = "none" /\ stdinPipe = <<>> /\ stdoutPipe = <<>>
    /\ copyEvents = {} /\ submits = <<>> /\ processedSet = {}
    /\ sent = <<>> /\ callReads = <<>> /\ executed = 0 /\ dupWrites = 0
    /\ closeLog = <<>> /\ copyLog = {} /\ copyDone = {} /\ stampLog = {}

\* The same locals at the start of the next run of main().
ResetLocals ==
    /\ done_names' = {} /\ skipped_names' = {}
    /\ needed_date' = EmptyMap /\ needed_csv' = EmptyMap
    /\ remaining' = <<>> /\ found_paths' = EmptyMap /\ duplicates' = EmptyMap
    /\ missing' = <<>> /\ bad_date' = <<>> /\ exiftool_failed' = <<>>
    /\ processed' = 0 /\ skipped_dup' = 0
    /\ idx' = 0 /\ exif_date' = "" /\ ok' = FALSE /\ exc' = "none"
    /\ et' = "none" /\ stdinPipe' = <<>> /\ stdoutPipe' = <<>>
    /\ copyEvents' = {} /\ submits' = <<>> /\ processedSet' = {}
    /\ sent' = <<>> /\ callReads' = <<>> /\ executed' = 0 /\ dupWrites' = 0
    /\ closeLog' = <<>> /\ copyLog' = {} /\ copyDone' = {} /\ stampLog' = {}

\* A catalog file is [path, fieldnames, rows, errorAfter]: a row holds the two
\* fields main() reads, an absent field being the empty value (the `or ""` of
\* lines 155-156); errorAfter is the number of rows the reader yields before
\* it raises (a byte that is not UTF-8, a csv.Error), 0 when open() or the
\* header line raises, -1 when the file reads to its end.
ReadsToEnd == -1
\* One catalog file with a row per item, in the order of ItemNameSeq.
CatalogOf(dates) ==
    << [path |-> CatalogPath,
        fieldnames |-> {"imgName", "originalCreationDate", "fileChecksum"},
        errorAfter |-> ReadsToEnd,
        rows |-> [k \in 1..Len(ItemNameSeq) |->
                    [imgName |-> ItemNameSeq[k],
                     originalCreationDate |-> dates[ItemNameSeq[k]]]]] >>
\* A prior CANNOT_BE_FOUND.csv as a prior run wrote it: header, then a row per name.
PriorMissingLedger(names) ==
    LET present == SelectSeq(ItemNameSeq, LAMBDA n : n \in names)
    IN  IF names = {} THEN AbsentCsv
        ELSE CsvOf(<<MISSING_HEADER>> \o
                   [k \in 1..Len(present) |-> <<present[k], CatalogPath>>])

Init ==
    /\ pc = "start"
    /\ exportFolders = "unknown" /\ exiftoolOnPath = "unknown"
    /\ exportFiles = [n \in ItemNames |-> -1]
    /\ \E dates \in [ItemNames -> RawDateSamples] : catalog = CatalogOf(dates)
    /\ \E prior \in [ItemNames -> {"none", "image", "ledger"}] :
         /\ doneImages = {n \in ItemNames : prior[n] = "image"}
         /\ doneErrors = [f \in Range(SKIP_LEDGERS) |->
                            IF f = CANNOT_BE_FOUND_CSV
                            THEN PriorMissingLedger({n \in ItemNames : prior[n] = "ledger"})
                            ELSE AbsentCsv]
    /\ dirsMade = FALSE
    /\ \E left \in SUBSET ItemNames :
         imagesOut = [n \in ItemNames |-> IF n \in left THEN SourceFile ELSE AbsentFile]
    /\ errorsOut = [f \in LedgerFiles |-> AbsentCsv]
    /\ FreshLocals
    /\ runNo = 1 /\ prevDuplicates = {}
    /\ dateIn = <<>> /\ dateOut = [ok |-> FALSE, val |-> ""] /\ datePc = "idle"

(***************************************************************************)
(* main(), lines 119-133: directories and export folders.                  *)
(***************************************************************************)
\* images_out.mkdir, errors_out.mkdir
MakeDirs ==
    /\ pc = "start"
    /\ dirsMade' = TRUE
    /\ pc' = "find_export"
    /\ UNCHANGED <<exportFolders, exiftoolOnPath, exportFiles, catalog, doneImages,
                   doneErrors, imagesOut, errorsOut>>
    /\ UNCHANGED <<scanVars, tallyVars, loopVars, etVars, histVars, stepVars, dateVars>>

\* find_export_folders(root); SystemExit when there is none
FindExportFolders ==
    /\ pc = "find_export"
    /\ \E found \in {"present", "absent"} :
         /\ exportFolders \in {"unknown", found}
         /\ exportFolders' = found
         /\ pc' = IF found = "absent" THEN "aborted" ELSE "read_done"
    /\ UNCHANGED <<exiftoolOnPath, exportFiles, catalog, doneImages, doneErrors,
                   dirsMade, imagesOut, errorsOut>>
    /\ UNCHANGED <<scanVars, tallyVars, loopVars, etVars, histVars, stepVars, dateVars>>

(***************************************************************************)
(* Completion filter, lines 86-111 and 135-136.                            *)
(***************************************************************************)
\* a faulty read_done_names: it looks into a directory that is not there
ReadDoneNamesWrongDir(images) == {}
\* read_done_names: the names of the files of the directory (none when absent)
ReadDoneNames(images) == images
\* one ledger of load_skipped_names: the first row is taken for the header, the
\* first column of every later non-empty row is a name
SkippedIn(csv) ==
    IF ~csv.exists THEN {}
    ELSE {Strip(csv.rows[k][1]) : k \in {j \in 2..Len(csv.rows) :
                                           csv.rows[j] # <<>> /\ csv.rows[j][1] # ""}}
LoadSkippedNames(errors) ==
    UNION {SkippedIn(errors[SKIP_LEDGERS[j]]) : j \in 1..Len(SKIP_LEDGERS)}

ReadDone ==
    /\ pc = "read_done"
    /\ done_names' = ReadDoneNames(doneImages)
    /\ skipped_names' = LoadSkippedNames(doneErrors)
    /\ pc' = "scan_csv"
    /\ UNCHANGED <<needed_date, needed_csv, remaining, found_paths, duplicates>>
    /\ UNCHANGED <<fsVars, tallyVars, loopVars, etVars, histVars, stepVars, dateVars>>

(***************************************************************************)
(* Catalog scan, lines 140-172.                                            *)
(***************************************************************************)
\* a faulty lines 161-163: the test of line 161 is missing, a later row of a
\* name writes over the entry of its first row
ScanRowLastWins(acc, row, path, done, skipped) ==
    LET name == Strip(row.imgName)
        raw_date == row.originalCreationDate
    IN  IF name = "" THEN acc
        ELSE IF name \in done \/ name \in skipped THEN acc
        ELSE [date |-> (name :> raw_date) @@ acc.date,
              csv |-> (name :> path) @@ acc.csv,
              order |-> IF name \in DOMAIN acc.date THEN acc.order
                        ELSE Append(acc.order, name)]
\* lines 155-163: one row; acc is [date, csv, order] (the two dicts and the
\* insertion order of their keys)
ScanRow(acc, row, path, done, skipped) ==
    LET name == Strip(row.imgName)
        raw_date == row.originalCreationDate
    IN  IF name = "" THEN acc
        ELSE IF name \in done \/ name \in skipped THEN acc
        ELSE IF name \in DOMAIN acc.date THEN acc
        ELSE [date |-> acc.date @@ (name :> raw_date),
              csv |-> acc.csv @@ (name :> path),
              order |-> Append(acc.order, name)]
RECURSIVE ScanRows(_, _, _, _, _, _)
ScanRows(acc, rows, k, path, done, skipped) ==
    IF k > Len(rows) THEN acc
    ELSE ScanRows(ScanRow(acc, rows[k], path, done, skipped),
                  rows, k + 1, path, done, skipped)
\* the rows the reader yields before the loop of line 154 ends or raises
RowsRead(file) ==
    IF file.errorAfter = ReadsToEnd THEN file.rows
    ELSE SubSeq(file.rows, 1, file.errorAfter)
\* lines 146-165: a file without the two required columns is passed over; when
\* the read raises, line 165 goes on to the next file and the two dicts keep
\* what the rows read so far have put into them
ScanFile(acc, file, done, skipped) ==
    IF file.errorAfter = 0 THEN acc
    ELSE IF file.fieldnames = {} THEN acc
    ELSE IF ~(CSV_REQUIRED_COLUMNS \subseteq file.fieldnames) THEN acc
    ELSE ScanRows(acc, RowsRead(file), 1, file.path, done, skipped)
RECURSIVE ScanFiles(_, _, _, _, _)
ScanFiles(acc, files, k, done, skipped) ==
    IF k > Len(files) THEN acc
    ELSE ScanFiles(ScanFile(acc, files[k], done, skipped), files, k + 1, done, skipped)

ScanCsvs ==
    /\ pc = "scan_csv"
    /\ LET acc == ScanFiles([date |-> EmptyMap, csv |-> EmptyMap, order |-> <<>>],
                            catalog, 1, done_names, skipped_names)
       IN  /\ needed_date' = acc.date
           /\ needed_csv' = acc.csv
           /\ remaining' = acc.order
           \* lines 170-172: "Nothing left to do."
           /\ pc' = IF acc.order = <<>> THEN "done" ELSE "locate"
    /\ UNCHANGED <<done_names, skipped_names, found_paths, duplicates>>
    /\ UNCHANGED <<fsVars, tallyVars, loopVars, etVars, histVars, stepVars, dateVars>>

(***************************************************************************)
(* File locator and duplicates, lines 174-198.                             *)
(***************************************************************************)
\* lines 175-181: the paths found for each remaining name, in walk order
FoundPaths(remaining_set, files) ==
    [n \in {m \in remaining_set : files[m] > 0} |->
        [k \in 1..files[n] |-> ExportPath(k, n)]]

LocateFiles ==
    /\ pc = "locate"
    /\ \E counts \in [ItemNames -> 0..MaxPaths] :
         /\ \A n \in ItemNames : exportFiles[n] \in {-1, counts[n]}
         /\ exportFiles' = counts
         /\ found_paths' = FoundPaths(Range(remaining), counts)
    /\ pc' = "write_dups"
    /\ UNCHANGED <<exportFolders, exiftoolOnPath, catalog, doneImages, doneErrors,
                   dirsMade, imagesOut, errorsOut>>
    /\ UNCHANGED <<done_names, skipped_names, needed_date, needed_csv, remaining,
                   duplicates>>
    /\ UNCHANGED <<tallyVars, loopVars, etVars, histVars, stepVars, dateVars>>

\* a faulty line 184: len(paths) > 2
DuplicatesOffByOne(found) ==
    [n \in {m \in DOMAIN found : Len(found[m]) > 2} |-> found[n]]
\* line 184
Duplicates(found) ==
    [n \in {m \in DOMAIN found : Len(found[m]) > 1} |-> found[n]]
\* lines 188-190: name, path, name, path, ...
DuplicateRow(name, paths) ==
    [j \in 1..(2 * Len(paths)) |-> IF j % 2 = 1 THEN name ELSE paths[j \div 2]]
\* lines 187-191: one row per duplicated name
DuplicateRows(dups) ==
    LET names == SelectSeq(ItemNameSeq, LAMBDA n : n \in DOMAIN dups)
    IN  [k \in 1..Len(names) |-> DuplicateRow(names[k], dups[names[k]])]

\* a faulty lines 184-198: DUPLICATES.csv is left to be written with the reports
WriteDuplicatesDeferred ==
    /\ pc = "write_dups"
    /\ duplicates' = Duplicates(found_paths)
    /\ missing' = <<>> /\ bad_date' = <<>> /\ exiftool_failed' = <<>>
    /\ processed' = 0 /\ skipped_dup' = 0
    /\ pc' = "start_et"
    /\ UNCHANGED <<done_names, skipped_names, needed_date, needed_csv, remaining,
                   found_paths>>
    /\ UNCHANGED <<fsVars, loopVars, etVars, histVars, stepVars, dateVars>>
\* lines 184-198
WriteDuplicates ==
    /\ pc = "write_dups"
    /\ duplicates' = Duplicates(found_paths)
    /\ errorsOut' = [errorsOut EXCEPT
                       ![DUPLICATES_CSV] = CsvOf(DuplicateRows(Duplicates(found_paths)))]
    /\ dupWrites' = dupWrites + 1
    /\ missing' = <<>> /\ bad_date' = <<>> /\ exiftool_failed' = <<>>
    /\ processed' = 0 /\ skipped_dup' = 0
    /\ pc' = "start_et"
    /\ UNCHANGED <<exportFolders, exiftoolOnPath, exportFiles, catalog, doneImages,
                   doneErrors, dirsMade, imagesOut>>
    /\ UNCHANGED <<done_names, skipped_names, needed_date, needed_csv, remaining,
                   found_paths>>
    /\ UNCHANGED <<runNo, copyEvents, submits, processedSet, sent, callReads,
                   executed, prevDuplicates>>
    /\ UNCHANGED stepVars
    /\ UNCHANGED <<loopVars, etVars, dateVars>>

\* line 200, lines 41-52: Popen; SystemExit when exiftool is not on PATH
StartExifTool ==
    /\ pc = "start_et"
    /\ \E found \in {"present", "absent"} :
         /\ exiftoolOnPath \in {"unknown", found}
         /\ exiftoolOnPath' = found
         /\ IF found = "absent"
            THEN pc' = "aborted" /\ et' = et /\ idx' = idx
            ELSE pc' = "loop" /\ et' = "alive" /\ idx' = 1
    /\ UNCHANGED <<exportFolders, exportFiles, catalog, doneImages, doneErrors,
                   dirsMade, imagesOut, errorsOut>>
    /\ UNCHANGED <<exif_date, ok, exc, stdinPipe, stdoutPipe>>
    /\ UNCHANGED <<scanVars, tallyVars, histVars, stepVars, dateVars>>

(***************************************************************************)
(* The per-item loop, lines 202-246.                                       *)
(***************************************************************************)
LoopPcs == {"loop", "copy", "parse", "ra_write", "ra_execute", "ra_flush",
            "ra_read", "after_stamp"}
CurrentName == remaining[idx]
\* found_paths.get(name, [])
PathsOf(name) == IF name \in DOMAIN found_paths THEN found_paths[name] ELSE <<>>
MissingRow(name) == <<name, needed_csv[name]>>
BadDateRow(name) == <<name, needed_date[name], needed_csv[name]>>
FailedRow(name, date) == <<name, date, ImagesOutPath(name), needed_csv[name]>>

\* lines 202-209: the head of the loop, the missing and the duplicate case
LoopHead ==
    /\ pc = "loop"
    /\ IF idx > Len(remaining)
       THEN /\ pc' = "close"
            /\ UNCHANGED <<idx, missing, skipped_dup>>
       ELSE IF PathsOf(CurrentName) = <<>>
       THEN /\ missing' = Append(missing, MissingRow(CurrentName))
            /\ idx' = idx + 1
            /\ pc' = "loop"
            /\ UNCHANGED skipped_dup
       ELSE IF CurrentName \in DOMAIN duplicates
       THEN /\ skipped_dup' = skipped_dup + 1
            /\ idx' = idx + 1
            /\ pc' = "loop"
            /\ UNCHANGED missing
       ELSE /\ pc' = "copy"
            /\ UNCHANGED <<idx, missing, skipped_dup>>
    /\ UNCHANGED <<bad_date, exiftool_failed, processed, exif_date, ok, exc>>
    /\ UNCHANGED <<fsVars, scanVars, etVars, histVars, stepVars, dateVars>>

\* one shutil.copy2 call
CopyCall(name) == [src |-> PathsOf(name)[1], dst |-> ImagesOutPath(name)]

\* a faulty safe_copy: the test of line 115 is missing, an existing destination
\* is written over
CopyStepOverwrite ==
    /\ pc = "copy"
    /\ copyEvents' = copyEvents \cup {CurrentName}
    /\ copyLog' = copyLog \cup {CopyCall(CurrentName)}
    /\ \/ /\ imagesOut' = [imagesOut EXCEPT ![CurrentName] = SourceFile]
          /\ copyDone' = copyDone \cup {CurrentName}
          /\ pc' = "parse"
          /\ UNCHANGED <<missing, idx>>
       \/ /\ \E left \in {AbsentFile, PartialFile} :
               imagesOut' = [imagesOut EXCEPT ![CurrentName] = left]
          /\ missing' = Append(missing, MissingRow(CurrentName))
          /\ idx' = idx + 1
          /\ pc' = "loop"
          /\ UNCHANGED copyDone
    /\ UNCHANGED <<exportFolders, exiftoolOnPath, exportFiles, catalog, doneImages,
                   doneErrors, dirsMade, errorsOut>>
    /\ UNCHANGED <<bad_date, exiftool_failed, processed, skipped_dup, exif_date, ok, exc>>
    /\ UNCHANGED <<runNo, submits, processedSet, sent, callReads, executed,
                   prevDuplicates, dupWrites>>
    /\ UNCHANGED <<scanVars, etVars, closeLog, stampLog, dateVars>>
\* lines 211-218 and safe_copy, lines 113-116.  shutil.copy2 either copies the
\* file or raises, and when it raises the destination is absent or truncated
\* (copy2 does not remove what it had written).
CopyStep ==
    /\ pc = "copy"
    /\ IF imagesOut[CurrentName].exists
       THEN /\ copyDone' = copyDone \cup {CurrentName}
            /\ pc' = "parse"
            /\ UNCHANGED <<imagesOut, copyEvents, copyLog, missing, idx>>
       ELSE /\ copyEvents' = copyEvents \cup {CurrentName}
            /\ copyLog' = copyLog \cup {CopyCall(CurrentName)}
            /\ \/ /\ imagesOut' = [imagesOut EXCEPT ![CurrentName] = SourceFile]
                  /\ copyDone' = copyDone \cup {CurrentName}
                  /\ pc' = "parse"
                  /\ UNCHANGED <<missing, idx>>
               \/ /\ \E left \in {AbsentFile, PartialFile} :
                       imagesOut' = [imagesOut EXCEPT ![CurrentName] = left]
                  /\ missing' = Append(missing, MissingRow(CurrentName))
                  /\ idx' = idx + 1
                  /\ pc' = "loop"
                  /\ UNCHANGED copyDone
    /\ UNCHANGED <<exportFolders, exiftoolOnPath, exportFiles, catalog, doneImages,
                   doneErrors, dirsMade, errorsOut>>
    /\ UNCHANGED <<bad_date, exiftool_failed, processed, skipped_dup, exif_date, ok, exc>>
    /\ UNCHANGED <<runNo, submits, processedSet, sent, callReads, executed,
                   prevDuplicates, dupWrites>>
    /\ UNCHANGED <<scanVars, etVars, closeLog, stampLog, dateVars>>

\* a faulty lines 220-224: the `continue` of line 224 is missing, an item with
\* a bad date goes on to the stamper with the date of the item before it
ParseStepNoContinue ==
    /\ pc = "parse"
    /\ LET r == ParseIcloudDate(needed_date[CurrentName])
       IN  IF r.ok
           THEN /\ exif_date' = r.val
                /\ UNCHANGED bad_date
           ELSE /\ bad_date' = Append(bad_date, BadDateRow(CurrentName))
                /\ UNCHANGED exif_date
    /\ pc' = "ra_write"
    /\ UNCHANGED <<idx, missing, exiftool_failed, processed, skipped_dup, ok, exc>>
    /\ UNCHANGED <<fsVars, scanVars, etVars, histVars, stepVars, dateVars>>
\* lines 220-224
ParseStep ==
    /\ pc = "parse"
    /\ LET r == ParseIcloudDate(needed_date[CurrentName])
       IN  IF r.ok
           THEN /\ exif_date' = r.val
                /\ pc' = "ra_write"
                /\ UNCHANGED <<bad_date, idx>>
           ELSE /\ bad_date' = Append(bad_date, BadDateRow(CurrentName))
                /\ idx' = idx + 1
                /\ pc' = "loop"
                /\ UNCHANGED exif_date
    /\ UNCHANGED <<missing, exiftool_failed, processed, skipped_dup, ok, exc>>
    /\ UNCHANGED <<fsVars, scanVars, etVars, histVars, stepVars, dateVars>>

(***************************************************************************)
(* ExifToolStayOpen.run_args, lines 54-65, called at lines 226-240.        *)
(* A line written to the process is [opt, val]: "-CreateDate=<val>" is     *)
(* opt "-CreateDate"; the file to stamp is opt "FILE".  The pipe is line   *)
(* buffered (bufsize=1): every write of a line reaches the process, and    *)
(* raises BrokenPipeError once the process has exited.                     *)
(***************************************************************************)
Arg(opt, val) == [opt |-> opt, val |-> val]
ExecuteLine == Arg(EXECUTE_MARKER, "")
\* a faulty lines 226-240: the file to stamp is src, the export file, not dst
StampArgsInPlace(name, date) ==
    IF SuffixLower(name) \in VIDEO_EXTS
    THEN <<Arg("-overwrite_original", ""), Arg("-CreateDate", date),
           Arg("-MediaCreateDate", date), Arg("-TrackCreateDate", date),
           Arg("FILE", PathsOf(name)[1])>>
    ELSE <<Arg("-overwrite_original", ""), Arg("-DateTimeOriginal", date),
           Arg("-CreateDate", date), Arg("FILE", PathsOf(name)[1])>>
\* lines 226-240
StampArgs(name, date) ==
    IF SuffixLower(name) \in VIDEO_EXTS
    THEN <<Arg("-overwrite_original", ""), Arg("-CreateDate", date),
           Arg("-MediaCreateDate", date), Arg("-TrackCreateDate", date),
           Arg("FILE", ImagesOutPath(name))>>
    ELSE <<Arg("-overwrite_original", ""), Arg("-DateTimeOriginal", date),
           Arg("-CreateDate", date), Arg("FILE", ImagesOutPath(name))>>
\* the pipe to the process takes a write
PipeOpen == et = "alive"

\* lines 56-57: the arguments, a line each
RunArgsWriteArgs ==
    /\ pc = "ra_write"
    /\ IF PipeOpen
       THEN /\ stdinPipe' = stdinPipe \o StampArgs(CurrentName, exif_date)
            /\ sent' = sent \o StampArgs(CurrentName, exif_date)
            /\ submits' = Append(submits, CurrentName)
            /\ callReads' = <<>>
            /\ pc' = "ra_execute"
            /\ UNCHANGED exc
       ELSE /\ exc' = "BrokenPipeError"
            /\ pc' = "close"
            /\ UNCHANGED <<stdinPipe, sent, submits, callReads>>
    /\ UNCHANGED <<idx, exif_date, ok, et, stdoutPipe>>
    /\ UNCHANGED <<runNo, copyEvents, processedSet, executed, prevDuplicates, dupWrites>>
    /\ UNCHANGED stepVars
    /\ UNCHANGED <<fsVars, scanVars, tallyVars, dateVars>>

\* line 58
RunArgsWriteExecute ==
    /\ pc = "ra_execute"
    /\ IF PipeOpen
       THEN /\ stdinPipe' = Append(stdinPipe, ExecuteLine)
            /\ sent' = Append(sent, ExecuteLine)
            /\ pc' = "ra_flush"
            /\ UNCHANGED exc
       ELSE /\ exc' = "BrokenPipeError"
            /\ pc' = "close"
            /\ UNCHANGED <<stdinPipe, sent>>
    /\ UNCHANGED <<idx, exif_date, ok, et, stdoutPipe>>
    /\ UNCHANGED <<runNo, copyEvents, submits, processedSet, callReads, executed,
                   prevDuplicates, dupWrites>>
    /\ UNCHANGED stepVars
    /\ UNCHANGED <<fsVars, scanVars, tallyVars, dateVars>>

\* line 59: nothing is left in the buffer to flush
RunArgsFlush ==
    /\ pc = "ra_flush"
    /\ pc' = "ra_read"
    /\ UNCHANGED <<fsVars, scanVars, tallyVars, loopVars, etVars, histVars, dateVars>>
    /\ UNCHANGED stepVars

\* a faulty line 64: any line read is taken for the answer
ContainsReadyAnyLine(line) == line.text # ""
\* line 64
ContainsReady(line) == line.text = READY_MARKER
EofLine == [text |-> "", cmd |-> 0]
\* lines 60-65: one readline(); it blocks while the process lives and has
\* printed nothing, and returns '' once the process is gone and the pipe empty
RunArgsReadLine ==
    /\ pc = "ra_read"
    /\ \/ /\ stdoutPipe # <<>>
          /\ stdoutPipe' = Tail(stdoutPipe)
          /\ callReads' = Append(callReads, Head(stdoutPipe))
          /\ IF ContainsReady(Head(stdoutPipe))
             THEN ok' = TRUE /\ pc' = "after_stamp"
             ELSE ok' = ok /\ pc' = "ra_read"
       \/ /\ stdoutPipe = <<>>
          /\ et = "dead"
          /\ stdoutPipe' = stdoutPipe
          /\ callReads' = Append(callReads, EofLine)
          /\ ok' = FALSE
          /\ pc' = "after_stamp"
    /\ UNCHANGED <<idx, exif_date, exc, et, stdinPipe>>
    /\ UNCHANGED <<runNo, copyEvents, submits, processedSet, sent, executed,
                   prevDuplicates, dupWrites>>
    /\ UNCHANGED stepVars
    /\ UNCHANGED <<fsVars, scanVars, tallyVars, dateVars>>

\* a faulty lines 242-246: the `continue` of line 244 is missing
AfterStampNoContinue ==
    /\ pc = "after_stamp"
    /\ exiftool_failed' = IF ~ok
                          THEN Append(exiftool_failed, FailedRow(CurrentName, exif_date))
                          ELSE exiftool_failed
    /\ processed' = processed + 1
    /\ processedSet' = processedSet \cup {CurrentName}
    /\ idx' = idx + 1
    /\ pc' = "loop"
    /\ UNCHANGED <<missing, bad_date, skipped_dup, exif_date, ok, exc>>
    /\ UNCHANGED <<runNo, copyEvents, submits, sent, callReads, executed,
                   prevDuplicates, dupWrites>>
    /\ UNCHANGED stepVars
    /\ UNCHANGED <<fsVars, scanVars, etVars, dateVars>>
\* lines 242-246
AfterStamp ==
    /\ pc = "after_stamp"
    /\ IF ~ok
       THEN /\ exiftool_failed' = Append(exiftool_failed, FailedRow(CurrentName, exif_date))
            /\ UNCHANGED <<processed, processedSet>>
       ELSE /\ processed' = processed + 1
            /\ processedSet' = processedSet \cup {CurrentName}
            /\ UNCHANGED exiftool_failed
    /\ idx' = idx + 1
    /\ pc' = "loop"
    /\ UNCHANGED <<missing, bad_date, skipped_dup, exif_date, ok, exc>>
    /\ UNCHANGED <<runNo, copyEvents, submits, sent, callReads, executed,
                   prevDuplicates, dupWrites>>
    /\ UNCHANGED stepVars
    /\ UNCHANGED <<fsVars, scanVars, etVars, dateVars>>

(***************************************************************************)
(* The exiftool process started at lines 43-50 with -stay_open True -@ -:  *)
(* it reads argument lines up to "-execute", runs the command, prints its  *)
(* messages and then "{ready}".  It may exit at any time.                  *)
(***************************************************************************)
\* position of the first "-execute" in the lines, 0 when there is none
FirstExecute(lines) ==
    IF \E k \in 1..Len(lines) : lines[k] = ExecuteLine
    THEN CHOOSE k \in 1..Len(lines) :
            /\ lines[k] = ExecuteLine
            /\ \A j \in 1..(k - 1) : lines[j] # ExecuteLine
    ELSE 0
TagsOf(cmd) ==
    {<<cmd[k].opt, cmd[k].val>> : k \in {j \in 1..Len(cmd) :
                                          cmd[j].opt # "FILE" /\ cmd[j].val # ""}}
TargetsOf(cmd) ==
    {n \in ItemNames : \E k \in 1..Len(cmd) :
                          cmd[k].opt = "FILE" /\ cmd[k].val = ImagesOutPath(n)}
\* the files a command names
FilesOf(cmd) == {cmd[k].val : k \in {j \in 1..Len(cmd) : cmd[j].opt = "FILE"}}
\* -overwrite_original: the tags are written in place
Stamped(file, tags) ==
    IF file.exists /\ ~file.partial
    THEN [file EXCEPT !.tags = {t \in file.tags : \A u \in tags : u[1] # t[1]} \cup tags]
    ELSE file
NoiseLine(c) == [text |-> "    1 image files updated", cmd |-> c]
ReadyLine(c) == [text |-> READY_MARKER, cmd |-> c]

ExifToolExecute ==
    /\ et = "alive"
    /\ pc \in LoopPcs
    /\ FirstExecute(stdinPipe) > 0
    /\ LET k == FirstExecute(stdinPipe)
           cmd == SubSeq(stdinPipe, 1, k - 1)
       IN  /\ stdinPipe' = SubSeq(stdinPipe, k + 1, Len(stdinPipe))
           /\ imagesOut' = [n \in ItemNames |->
                              IF n \in TargetsOf(cmd)
                              THEN Stamped(imagesOut[n], TagsOf(cmd))
                              ELSE imagesOut[n]]
           /\ stampLog' = stampLog \cup FilesOf(cmd)
           /\ executed' = executed + 1
           /\ \E noise \in 0..MaxNoise :
                stdoutPipe' = stdoutPipe \o [j \in 1..noise |-> NoiseLine(executed + 1)]
                                         \o <<ReadyLine(executed + 1)>>
    /\ UNCHANGED <<pc, et>>
    /\ UNCHANGED <<exportFolders, exiftoolOnPath, exportFiles, catalog, doneImages,
                   doneErrors, dirsMade, errorsOut>>
    /\ UNCHANGED <<runNo, copyEvents, submits, processedSet, sent, callReads,
                   prevDuplicates, dupWrites>>
    /\ UNCHANGED <<closeLog, copyLog, copyDone>>
    /\ UNCHANGED <<scanVars, tallyVars, loopVars, dateVars>>

\* the process exits on its own (a crash, a kill, or on the stay-open-disable
\* command); what it had printed stays readable
ExifToolDies ==
    /\ et = "alive"
    /\ pc \in LoopPcs \cup {"close", "close_terminate"}
    /\ et' = "dead"
    /\ stdinPipe' = <<>>
    /\ UNCHANGED <<pc, stdoutPipe>>
    /\ UNCHANGED <<fsVars, scanVars, tallyVars, loopVars, histVars, stepVars, dateVars>>

(***************************************************************************)
(* Leaving the loop: KeyboardInterrupt, the finally clause and close().    *)
(***************************************************************************)
\* Ctrl-C while the loop runs: KeyboardInterrupt is no Exception, so no
\* handler of the loop catches it
Interrupt ==
    /\ pc \in LoopPcs
    /\ exc' = "KeyboardInterrupt"
    /\ pc' = "close"
    /\ UNCHANGED <<idx, exif_date, ok>>
    /\ UNCHANGED <<fsVars, scanVars, tallyVars, etVars, histVars, stepVars, dateVars>>

StayOpenFalse == <<Arg("-stay_open", ""), Arg("False", ""), ExecuteLine>>
\* the statement after main()'s try/finally, or where the exception goes:
\* lines 269-274 catch KeyboardInterrupt only
AfterFinally ==
    CASE exc = "none" -> "write_missing"
      [] exc = "KeyboardInterrupt" -> "interrupted"
      [] OTHER -> "crashed"

\* a faulty close(): the handler of lines 73-74 is missing, a failed write
\* leaves close() and terminate() is not reached
CloseWriteNoCatch ==
    /\ pc = "close"
    /\ IF PipeOpen
       THEN /\ sent' = sent \o StayOpenFalse
            /\ stdinPipe' = stdinPipe \o StayOpenFalse
            /\ closeLog' = Append(closeLog, "written")
            /\ pc' = "close_terminate"
            /\ UNCHANGED exc
       ELSE /\ closeLog' = Append(closeLog, "write failed")
            /\ exc' = "BrokenPipeError"
            /\ pc' = "crashed"
            /\ UNCHANGED <<sent, stdinPipe>>
    /\ UNCHANGED <<idx, exif_date, ok, et, stdoutPipe>>
    /\ UNCHANGED <<runNo, copyEvents, submits, processedSet, callReads, executed,
                   prevDuplicates, dupWrites>>
    /\ UNCHANGED <<copyLog, copyDone, stampLog>>
    /\ UNCHANGED <<fsVars, scanVars, tallyVars, dateVars>>
\* lines 247-248 and close(), lines 68-74: the stay-open-disable command is
\* written; a write that raises (the process has exited) is passed over
CloseWrite ==
    /\ pc = "close"
    /\ IF PipeOpen
       THEN /\ sent' = sent \o StayOpenFalse
            /\ stdinPipe' = stdinPipe \o StayOpenFalse
            /\ closeLog' = Append(closeLog, "written")
       ELSE /\ closeLog' = Append(closeLog, "write failed")
            /\ UNCHANGED <<sent, stdinPipe>>
    /\ pc' = "close_terminate"
    /\ UNCHANGED <<idx, exif_date, ok, exc, et, stdoutPipe>>
    /\ UNCHANGED <<runNo, copyEvents, submits, processedSet, callReads, executed,
                   prevDuplicates, dupWrites>>
    /\ UNCHANGED <<copyLog, copyDone, stampLog>>
    /\ UNCHANGED <<fsVars, scanVars, tallyVars, dateVars>>

\* close(), lines 75-78: terminate(); then the finally clause is left
CloseTerminate ==
    /\ pc = "close_terminate"
    /\ closeLog' = Append(closeLog, "terminate")
    /\ et' = "terminated"
    /\ stdinPipe' = <<>>
    /\ pc' = AfterFinally
    /\ UNCHANGED stdoutPipe
    /\ UNCHANGED <<copyLog, copyDone, stampLog>>
    /\ UNCHANGED <<fsVars, scanVars, tallyVars, loopVars, histVars, dateVars>>

(***************************************************************************)
(* The reports, lines 250-259.                                             *)
(***************************************************************************)
\* a faulty write_csv: line 254 is missing
WriteCsvNoHeader(header, rows) == CsvOf(rows)
\* write_csv
WriteCsv(header, rows) == CsvOf(<<header>> \o rows)

WriteMissing ==
    /\ pc = "write_missing"
    /\ errorsOut' = [errorsOut EXCEPT
                       ![CANNOT_BE_FOUND_CSV] = WriteCsv(MISSING_HEADER, missing)]
    /\ pc' = "write_bad"
    /\ UNCHANGED <<exportFolders, exiftoolOnPath, exportFiles, catalog, doneImages,
                   doneErrors, dirsMade, imagesOut>>
    /\ UNCHANGED <<scanVars, tallyVars, loopVars, etVars, histVars, stepVars, dateVars>>

WriteBadDate ==
    /\ pc = "write_bad"
    /\ errorsOut' = [errorsOut EXCEPT
                       ![BAD_DATE_CSV] = WriteCsv(BAD_DATE_HEADER, bad_date)]
    /\ pc' = "write_failed"
    /\ UNCHANGED <<exportFolders, exiftoolOnPath, exportFiles, catalog, doneImages,
                   doneErrors, dirsMade, imagesOut>>
    /\ UNCHANGED <<scanVars, tallyVars, loopVars, etVars, histVars, stepVars, dateVars>>

WriteFailed ==
    /\ pc = "write_failed"
    /\ errorsOut' = [errorsOut EXCEPT
                       ![EXIFTOOL_FAILED_CSV] =
                           WriteCsv(EXIFTOOL_FAILED_HEADER, exiftool_failed)]
    /\ pc' = "done"
    /\ UNCHANGED <<exportFolders, exiftoolOnPath, exportFiles, catalog, doneImages,
                   doneErrors, dirsMade, imagesOut>>
    /\ UNCHANGED <<scanVars, tallyVars, loopVars, etVars, histVars, stepVars, dateVars>>

(***************************************************************************)
(* Between two runs the user adds the outputs of the finished run to the   *)
(* directories the next run reads as done: the images to                   *)
(* NEW_IMAGES_SORTED/IMAGES, the rows of the ledgers to the ledgers of     *)
(* NEW_IMAGES_SORTED/ERRORS.  The export folders and catalogs stay as      *)
(* they are.                                                               *)
(***************************************************************************)
MergeCsv(old, new) ==
    IF ~new.exists THEN old
    ELSE IF ~old.exists THEN new
    ELSE CsvOf(old.rows \o Tail(new.rows))

CopyOutputsToDone ==
    /\ pc = "done"
    /\ runNo < MaxRuns
    /\ doneImages' = doneImages \cup {n \in ItemNames : imagesOut[n].exists}
    /\ doneErrors' = [f \in Range(SKIP_LEDGERS) |-> MergeCsv(doneErrors[f], errorsOut[f])]
    /\ prevDuplicates' = DOMAIN duplicates
    /\ runNo' = runNo + 1
    /\ pc' = "start"
    /\ ResetLocals
    /\ UNCHANGED <<exportFolders, exiftoolOnPath, exportFiles, catalog, dirsMade,
                   imagesOut, errorsOut>>
    /\ UNCHANGED dateVars

Next ==
    \/ MakeDirs \/ FindExportFolders \/ ReadDone \/ ScanCsvs \/ LocateFiles
    \/ WriteDuplicates \/ StartExifTool
    \/ LoopHead \/ CopyStep \/ ParseStep
    \/ RunArgsWriteArgs \/ RunArgsWriteExecute \/ RunArgsFlush \/ RunArgsReadLine
    \/ AfterStamp
    \/ ExifToolExecute \/ ExifToolDies
    \/ Interrupt \/ CloseWrite \/ CloseTerminate
    \/ WriteMissing \/ WriteBadDate \/ WriteFailed
    \/ CopyOutputsToDone

Spec == Init /\ [][Next]_vars

(***************************************************************************)
(* parse_icloud_date on its own: a call on a date string drawn from the    *)
(* strings of the catalog's shape, with and without a timezone, and from   *)
(* strings that are no dates.                                              *)
(***************************************************************************)
SampleWeekdays == {"Monday", "Sunday"}
SampleMonths == {"January", "February", "December"}
SampleDays == {1, 2, 29, 30, 31}
SampleYears == {2023, 2024}
SampleHours == {1, 3, 11, 12}
SampleMinutes == {0, 5, 45, 59}
\* nothing, or one trailing token
SampleTails == {<<>>, <<Word("PST")>>, <<Word("UTC")>>, <<Word("CEST")>>,
                <<Word("Pacific")>>, <<Other("+0100")>>}
ShapedDates ==
    {<<Word(wd), Word(mo), DayYear(d, y), HourMin(h, m), Word(mer)>> \o tail :
        wd \in SampleWeekdays, mo \in SampleMonths, d \in SampleDays,
        y \in SampleYears, h \in SampleHours, m \in SampleMinutes,
        mer \in Meridiems, tail \in SampleTails}
DateInputs == ShapedDates \cup RawDateSamples \cup {<<>>}

\* main() is not running
MainIdle ==
    /\ pc = "idle"
    /\ exportFolders = "unknown" /\ exiftoolOnPath = "unknown"
    /\ exportFiles = [n \in ItemNames |-> -1]
    /\ catalog = <<>>
    /\ doneImages = {} /\ doneErrors = [f \in Range(SKIP_LEDGERS) |-> AbsentCsv]
    /\ dirsMade = FALSE
    /\ imagesOut = [n \in ItemNames |-> AbsentFile]
    /\ errorsOut = [f \in LedgerFiles |-> AbsentCsv]
    /\ FreshLocals
    /\ runNo = 1 /\ prevDuplicates = {}

InitDate ==
    /\ MainIdle
    /\ dateIn \in DateInputs
    /\ dateOut = [ok |-> FALSE, val |-> ""]
    /\ datePc = "call"

ParseCall ==
    /\ datePc = "call"
    /\ dateOut' = ParseIcloudDate(dateIn)
    /\ datePc' = "returned"
    /\ UNCHANGED <<pc, dateIn, fsVars, scanVars, tallyVars, loopVars, etVars, histVars>>
    /\ UNCHANGED stepVars

NextDate == ParseCall

SpecDate == InitDate /\ [][NextDate]_vars

(***************************************************************************)
(* The completion filter and the catalog scan on their own, lines 135-172, *)
(* over catalogs of several files (rows repeating a name, rows without a   *)
(* name, files without the required columns, files that raise while they   *)
(* are read) and over prior ledgers with and without a header row.         *)
(***************************************************************************)
CatalogRow(name, date) == [imgName |-> name, originalCreationDate |-> date]
SampleRows ==
    {<<>>,
     <<CatalogRow("IMG_0001.JPG", DateWithTz)>>,
     <<CatalogRow("IMG_0001.JPG", DateWithTz), CatalogRow("CLIP_0002.MOV", DateNoTz)>>,
     <<CatalogRow("CLIP_0002.MOV", DateWithTz), CatalogRow("IMG_0001.JPG", DateGarbled)>>,
     <<CatalogRow("IMG_0001.JPG", DateNoTz), CatalogRow("IMG_0001.JPG", DateGarbled)>>,
     <<CatalogRow("", DateWithTz), CatalogRow(PaddedName, <<>>)>>,
     <<CatalogRow(BlankName, DateNoTz), CatalogRow("CLIP_0002.MOV", DateGarbled)>>}
\* the files that can be the k-th catalog file
SampleFiles(k) ==
    UNION {{[path |-> CatalogPathOf(k),
             fieldnames |-> {"imgName", "originalCreationDate", "fileChecksum"},
             errorAfter |-> e, rows |-> rows] :
               e \in {ReadsToEnd} \cup (0..Len(rows))} : rows \in SampleRows}
    \cup {[path |-> CatalogPathOf(k), fieldnames |-> {"imgName", "fileChecksum"},
           errorAfter |-> ReadsToEnd,
           rows |-> <<CatalogRow("IMG_0001.JPG", <<>>)>>],
          [path |-> CatalogPathOf(k), fieldnames |-> {},
           errorAfter |-> ReadsToEnd, rows |-> <<>>]}
\* the catalogs of n files
RECURSIVE CatalogsOf(_)
CatalogsOf(n) ==
    IF n = 0 THEN {<<>>}
    ELSE {Append(c, file) : c \in CatalogsOf(n - 1), file \in SampleFiles(n)}
\* the catalogs of at most max files
CatalogsUpTo(max) == UNION {CatalogsOf(n) : n \in 0..max}

HeaderOf(f) ==
    CASE f = CANNOT_BE_FOUND_CSV -> MISSING_HEADER
      [] f = BAD_DATE_CSV -> BAD_DATE_HEADER
      [] OTHER -> EXIFTOOL_FAILED_HEADER
\* a data row of ledger f for a name
LedgerRow(f, name) ==
    [j \in 1..Len(HeaderOf(f)) |-> IF j = 1 THEN name ELSE CatalogPath]
\* ledger f as it may be found: absent, empty, with its header row, without
\* one, with an empty line and a row without a name
SampleLedgers(f) ==
    {AbsentCsv,
     CsvOf(<<>>),
     CsvOf(<<HeaderOf(f), LedgerRow(f, "IMG_0001.JPG")>>),
     CsvOf(<<LedgerRow(f, "IMG_0001.JPG")>>),
     CsvOf(<<LedgerRow(f, "CLIP_0002.MOV"), LedgerRow(f, "IMG_0001.JPG")>>),
     CsvOf(<<HeaderOf(f), <<>>, LedgerRow(f, ""), LedgerRow(f, PaddedName)>>)}

\* main() at line 135, the export folders found
InitScan ==
    /\ pc = "read_done"
    /\ exportFolders = "present" /\ exiftoolOnPath = "unknown"
    /\ exportFiles = [n \in ItemNames |-> -1]
    /\ \/ /\ catalog \in CatalogsUpTo(MaxFiles)
          /\ doneErrors = [f \in Range(SKIP_LEDGERS) |-> AbsentCsv]
       \/ /\ catalog = CatalogOf([n \in ItemNames |-> DateWithTz])
          /\ \E a \in SampleLedgers(CANNOT_BE_FOUND_CSV),
                b \in SampleLedgers(BAD_DATE_CSV),
                c \in SampleLedgers(EXIFTOOL_FAILED_CSV) :
                doneErrors = (CANNOT_BE_FOUND_CSV :> a) @@ (BAD_DATE_CSV :> b)
                             @@ (EXIFTOOL_FAILED_CSV :> c)
    /\ doneImages \in SUBSET ItemNames
    /\ dirsMade = TRUE
    /\ imagesOut = [n \in ItemNames |-> AbsentFile]
    /\ errorsOut = [f \in LedgerFiles |-> AbsentCsv]
    /\ FreshLocals
    /\ runNo = 1 /\ prevDuplicates = {}
    /\ dateIn = <<>> /\ dateOut = [ok |-> FALSE, val |-> ""] /\ datePc = "idle"

NextScan == ReadDone \/ ScanCsvs

SpecScan == InitScan /\ [][NextScan]_vars

(***************************************************************************)
(* Properties.                                                             *)
(***************************************************************************)
In(b) == IF b THEN 1 ELSE 0
LastOf(seq) == seq[Len(seq)]
EndsWith(seq, suffix) ==
    /\ Len(seq) >= Len(suffix)
    /\ SubSeq(seq, Len(seq) - Len(suffix) + 1, Len(seq)) = suffix
\* the rows of a ledger after its header row
DataRows(csv) == IF csv.exists /\ csv.rows # <<>> THEN Tail(csv.rows) ELSE <<>>
\* the names the ledgers on disk hold (DUPLICATES.csv has no header row)
DuplicateKeys == Keys(errorsOut[DUPLICATES_CSV].rows)
MissingKeys == Keys(DataRows(errorsOut[CANNOT_BE_FOUND_CSV]))
BadDateKeys == Keys(DataRows(errorsOut[BAD_DATE_CSV]))
StampFailedKeys == Keys(DataRows(errorsOut[EXIFTOOL_FAILED_CSV]))
RemainingSet == DOMAIN needed_date
\* the number of classes a name is in
ClassCount(n) ==
    In(n \in processedSet) + In(n \in DuplicateKeys) + In(n \in MissingKeys)
    + In(n \in BadDateKeys) + In(n \in StampFailedKeys)
\* the names with two or more located files
DuplicatedNames == {n \in DOMAIN found_paths : Len(found_paths[n]) >= 2}
\* the tags the run means a file to carry
CorrectedTags(n) == TagsOf(StampArgs(n, ParseIcloudDate(needed_date[n]).val))
HasCorrectedTimestamp(n) ==
    /\ ParseIcloudDate(needed_date[n]).ok
    /\ CorrectedTags(n) \subseteq imagesOut[n].tags

\* C1: when main() has returned, every name of RemainingSet is in exactly one
\* of processed, duplicate, missing, bad-date, stamp-failed, no name is listed
\* twice in a ledger, and the key sets of the four ledgers are pairwise disjoint.
C1_Partition ==
    pc = "done" =>
        /\ \A n \in RemainingSet : ClassCount(n) = 1
        /\ DuplicateKeys \cap MissingKeys = {}
        /\ DuplicateKeys \cap BadDateKeys = {}
        /\ DuplicateKeys \cap StampFailedKeys = {}
        /\ MissingKeys \cap BadDateKeys = {}
        /\ MissingKeys \cap StampFailedKeys = {}
        /\ BadDateKeys \cap StampFailedKeys = {}
        /\ processed = Cardinality(processedSet)
        /\ Len(missing) = Cardinality(Keys(missing))
        /\ Len(bad_date) = Cardinality(Keys(bad_date))
        /\ Len(exiftool_failed) = Cardinality(Keys(exiftool_failed))
\* a run that returned with one name processed and the other stamp-failed
C1_Witness ==
    /\ pc = "done"
    /\ Len(remaining) = 2
    /\ processedSet # {}
    /\ StampFailedKeys # {}

\* the timestamp a string of the catalog's shape stands for, from its fields
CanonicalTimestamp(toks) ==
    LET hour == IF toks[5].w = "PM"
                THEN (IF toks[4].a = 12 THEN 12 ELSE toks[4].a + 12)
                ELSE (IF toks[4].a = 12 THEN 0 ELSE toks[4].a)
    IN  Pad4(toks[3].b) \o ":" \o Pad2(MonthNumber(toks[2].w)) \o ":" \o
        Pad2(toks[3].a) \o " " \o Pad2(hour) \o ":" \o Pad2(toks[4].b) \o ":00"
\* "<Weekday> <Month> <Day>,<Year> <Hour>:<Minute> <AM/PM>", a real date, then
\* nothing or a short alphabetic timezone token
ValidDateInput(toks) ==
    /\ Len(toks) \in {5, 6}
    /\ StrptimeMatches(SubSeq(toks, 1, 5))
    /\ Len(toks) = 6 => toks[6].k = "w" /\ Len(toks[6].w) \in 1..5

\* C2: parse_icloud_date returns the canonical timestamp for every valid input,
\* with a trailing timezone token and without one; "Monday January 2,2023
\* 3:45 PM PST" gives "2023:01:02 15:45:00".
C2_ParsesWithAndWithoutTimezone ==
    (datePc = "returned" /\ ValidDateInput(dateIn)) =>
        /\ dateOut = [ok |-> TRUE, val |-> CanonicalTimestamp(dateIn)]
        /\ dateIn = DateWithTz => dateOut.val = "2023:01:02 15:45:00"

\* The half of C2 that the code keeps: with a trailing short alphabetic
\* timezone token the canonical timestamp is returned.
ParsesWithTimezone ==
    (datePc = "returned" /\ ValidDateInput(dateIn) /\ Len(dateIn) = 6) =>
        dateOut = [ok |-> TRUE, val |-> CanonicalTimestamp(dateIn)]
\* Without the token the meridiem is taken for it and the call raises.
RaisesWithoutTimezone ==
    (datePc = "returned" /\ ValidDateInput(dateIn) /\ Len(dateIn) = 5) =>
        ~dateOut.ok

\* C3: a remaining image whose date is "Tuesday March 5,2024 10:15 AM", with one
\* file found, copied, and no stamping failure, ends the run stamped with
\* DateTimeOriginal and CreateDate "2024:03:05 10:15:00", counted once in
\* processed and in no ledger.
C3_SuccessScenario ==
    pc = "done" =>
        \A n \in RemainingSet :
            ( /\ needed_date[n] = DateNoTz
              /\ ~(SuffixLower(n) \in VIDEO_EXTS)
              /\ exportFiles[n] = 1
              /\ n \notin MissingKeys
              /\ n \notin StampFailedKeys )
            => /\ n \in processedSet
               /\ processed = Cardinality(processedSet)
               /\ {<<"-DateTimeOriginal", "2024:03:05 10:15:00">>,
                   <<"-CreateDate", "2024:03:05 10:15:00">>} \subseteq imagesOut[n].tags
               /\ n \notin DuplicateKeys \cup BadDateKeys

StartedScan == pc \notin {"start", "find_export", "read_done", "scan_csv"}
\* C4 as stated: the second run finds nothing remaining, copies nothing and
\* submits no stamp command.
C4_SecondRunEmpty ==
    runNo >= 2 => remaining = <<>> /\ copyEvents = {} /\ submits = <<>>
\* C4 as amended: the second run's RemainingSet is the set of the names the
\* first run classified duplicate that have no file in the image directory
\* copied to done (a duplicate enters no ledger the next run reads, and the run
\* copies no file for it), and the second run copies nothing and submits no
\* stamp command.
C4_SecondRunOnlyDuplicates ==
    runNo >= 2 =>
        /\ StartedScan => Range(remaining) = prevDuplicates \ doneImages
        /\ ~StartedScan => remaining = <<>>
        /\ copyEvents = {} /\ submits = <<>>
\* a second run that went through a duplicated name of the first run, after a
\* first run that also left a ledger row
C4_Witness ==
    /\ runNo = 2 /\ pc = "done"
    /\ remaining # <<>>
    /\ Range(remaining) = prevDuplicates \ doneImages
    /\ \E f \in Range(SKIP_LEDGERS) : DataRows(doneErrors[f]) # <<>>

\* C5: a name with two or more located files is never copied and never
\* stamped, and once DUPLICATES.csv is written it holds exactly one row for
\* the name, which lists every located path of it.
C5_DuplicatesListedNeverTouched ==
    \A n \in DuplicatedNames :
        /\ n \notin copyEvents
        /\ n \notin Range(submits)
        /\ dupWrites > 0 =>
             LET rows == errorsOut[DUPLICATES_CSV].rows
                 mine == {k \in 1..Len(rows) : rows[k][1] = n}
             IN  /\ Cardinality(mine) = 1
                 /\ \A k \in mine : \A j \in 1..Len(found_paths[n]) :
                        \E c \in 1..Len(rows[k]) : rows[k][c] = found_paths[n][j]
\* a finished run with a duplicated name and a copied one
C5_Witness ==
    /\ pc = "done"
    /\ DuplicatedNames # {}
    /\ copyEvents # {}
    /\ submits # <<>>

\* C6: whenever a copy or a stamp command has happened in a run, DUPLICATES.csv
\* has been written in that run, once, with a row for every duplicated name.
C6_DuplicatesBeforeAnyCopy ==
    (copyEvents # {} \/ submits # <<>>) =>
        /\ dupWrites = 1
        /\ errorsOut[DUPLICATES_CSV].exists
        /\ DuplicateKeys = DuplicatedNames
\* the first copy of a run that has a duplicated name
C6_Witness ==
    /\ pc = "parse"
    /\ Cardinality(copyEvents) = 1
    /\ DuplicatedNames # {}

\* C7: when the run aborts before its work (no export folder, or no exiftool),
\* no ledger file exists and no file was copied.
C7_AbortWritesNothing ==
    pc = "aborted" =>
        /\ \A f \in LedgerFiles : ~errorsOut[f].exists
        /\ copyEvents = {}

\* C8: no failure of the stamper leaves the loop: whatever the process does,
\* no exception other than an interrupt leaves the try block or ends main(),
\* and a run with remaining names that ends without an interrupt has written
\* the Missing, BadDate and StampFailed ledgers.
C8_StamperFailureContained ==
    /\ exc \in {"none", "KeyboardInterrupt"}
    /\ pc # "crashed"
    /\ (pc \in {"done", "crashed"} /\ runNo = 1 /\ remaining # <<>>) =>
           \A f \in Range(SKIP_LEDGERS) : errorsOut[f].exists

\* C9: after an interrupt or a crash in the loop, every file the run copied to
\* the output image directory carries its corrected timestamp or is named in a
\* failure ledger on disk.
C9_CrashLeavesResumableOutput ==
    pc \in {"interrupted", "crashed"} =>
        \A n \in copyEvents :
            imagesOut[n].exists =>
                \/ HasCorrectedTimestamp(n)
                \/ n \in MissingKeys \cup BadDateKeys \cup StampFailedKeys

IsReadyLine(line) == line.text = READY_MARKER
\* commands written and not yet executed, plus answers printed and not yet read
InFlight ==
    Cardinality({k \in 1..Len(stdinPipe) : stdinPipe[k] = ExecuteLine})
    + Cardinality({k \in 1..Len(stdoutPipe) : IsReadyLine(stdoutPipe[k])})
CommandOf(n) ==
    StampArgs(n, ParseIcloudDate(needed_date[n]).val) \o <<ExecuteLine>>
\* C10: run_args has written all its arguments and then the execute marker
\* before it reads; it goes on reading until a ready line or the end of the
\* stream, returns true exactly on the first and false exactly on the second;
\* at most one command is in flight; the ready line it returns on is the
\* answer to its own command.
C10_SubmitProtocol ==
    /\ (pc \in LoopPcs /\ callReads # <<>>) => EndsWith(sent, CommandOf(LastOf(submits)))
    /\ pc = "ra_read" =>
           \A k \in 1..Len(callReads) :
               ~IsReadyLine(callReads[k]) /\ callReads[k] # EofLine
    /\ pc = "after_stamp" =>
           /\ callReads # <<>>
           /\ ok <=> IsReadyLine(LastOf(callReads))
           /\ ~ok <=> LastOf(callReads) = EofLine
           /\ \A k \in 1..(Len(callReads) - 1) :
                  ~IsReadyLine(callReads[k]) /\ callReads[k] # EofLine
           /\ ok => LastOf(callReads).cmd = Len(submits)
    /\ pc \in LoopPcs => InFlight <= 1
    /\ pc = "ra_write" => stdoutPipe = <<>>
\* the second submit of a run returns true after reading a message line first
C10_Witness ==
    /\ pc = "after_stamp"
    /\ ok
    /\ Len(submits) = 2
    /\ Len(callReads) >= 2

\* main() has left the try/finally of lines 201-248
PastFinally == pc \in {"write_missing", "write_bad", "write_failed", "done",
                       "interrupted", "crashed"}
\* close() ran once: one attempt to write the command, then terminate()
ClosedOnce ==
    /\ Len(closeLog) = 2
    /\ closeLog[1] \in {"written", "write failed"}
    /\ closeLog[2] = "terminate"
C11_ClosedAfterLoop ==
    /\ (et # "none" /\ PastFinally) => ClosedOnce /\ et = "terminated"
    /\ (closeLog # <<>> /\ closeLog[1] = "written") => EndsWith(sent, StayOpenFalse)
    /\ pc = "close_terminate" => Len(closeLog) = 1
C11_LoopExitsThroughClose ==
    /\ (pc \in LoopPcs /\ pc' \notin LoopPcs) => pc' = "close"
    /\ pc = "close" => pc' \in {"close", "close_terminate"}
    /\ pc \in {"close", "close_terminate"} => exc' = exc
    /\ pc = "close_terminate" => pc' \in {"close_terminate", AfterFinally}
\* C11: once the stamper is started, every way out of the loop (its end, an
\* exception, an interrupt) goes through close(); close() tries to write the
\* stay-open-disable command and then calls terminate(), also when the write
\* failed; close() raises nothing: the exception that leaves main(), if any, is
\* the one that left the loop.
C11_StamperShutdown == []C11_ClosedAfterLoop /\ [][C11_LoopExitsThroughClose]_vars
\* an interrupted run whose stamper had exited: the write failed, terminate() ran
C11_Witness ==
    /\ pc = "interrupted"
    /\ closeLog = <<"write failed", "terminate">>
    /\ et = "terminated"


\* the catalog scan has run
ScanDone == pc \in {"locate", "done"}
\* a file the scan recognizes as a catalog: it has both required columns
Recognized(file) ==
    file.fieldnames # {} /\ CSV_REQUIRED_COLUMNS \subseteq file.fieldnames
\* every catalog file reads to its end
AllFilesRead == \A k \in 1..Len(catalog) : catalog[k].errorAfter = ReadsToEnd
RecordsOf(file) ==
    [k \in 1..Len(file.rows) |->
        [name |-> Strip(file.rows[k].imgName),
         date |-> file.rows[k].originalCreationDate,
         path |-> file.path]]
\* the rows of the recognized files, in discovery order
RECURSIVE CatalogRecords(_)
CatalogRecords(files) ==
    IF files = <<>> THEN <<>>
    ELSE (IF Recognized(Head(files)) THEN RecordsOf(Head(files)) ELSE <<>>)
         \o CatalogRecords(Tail(files))
CatalogNames(files) ==
    {CatalogRecords(files)[k].name : k \in 1..Len(CatalogRecords(files))} \ {""}
FirstRecord(files, n) ==
    LET recs == CatalogRecords(files)
        first == CHOOSE k \in 1..Len(recs) :
                    /\ recs[k].name = n
                    /\ \A j \in 1..(k - 1) : recs[j].name # n
    IN  recs[first]
\* the names the completion filter returned
CompletedSet == done_names \cup skipped_names
\* C12: after the scan of catalog files that all read to their end, the two
\* maps have the same key set, which is the set of the non-empty names of the
\* rows of the recognized files minus CompletedSet, and hold for every name the
\* raw date and the file of its first row in discovery order; the list of
\* remaining names holds each key once.
C12_ScanResult ==
    (ScanDone /\ AllFilesRead) =>
        /\ DOMAIN needed_date = DOMAIN needed_csv
        /\ DOMAIN needed_date = CatalogNames(catalog) \ CompletedSet
        /\ Range(remaining) = DOMAIN needed_date
        /\ Len(remaining) = Cardinality(DOMAIN needed_date)
        /\ \A n \in DOMAIN needed_date :
              /\ needed_date[n] = FirstRecord(catalog, n).date
              /\ needed_csv[n] = FirstRecord(catalog, n).path
\* two files read to their end, a remaining name with rows of different dates
\* in both, and a catalog name that the completion filter excludes
C12_Witness ==
    /\ ScanDone /\ AllFilesRead
    /\ Len(catalog) = 2
    /\ CatalogNames(catalog) \cap CompletedSet # {}
    /\ \E n \in DOMAIN needed_date :
          \E j, k \in 1..Len(CatalogRecords(catalog)) :
              /\ CatalogRecords(catalog)[j].name = n
              /\ CatalogRecords(catalog)[k].name = n
              /\ CatalogRecords(catalog)[j].path # CatalogRecords(catalog)[k].path
              /\ CatalogRecords(catalog)[j].date # CatalogRecords(catalog)[k].date

\* the catalog files that read to their end
FilesRead == SelectSeq(catalog, LAMBDA file : file.errorAfter = ReadsToEnd)
\* C13: a catalog file whose read raises, at whatever row, adds no entry to
\* the two maps, and the scan goes on with the next file: the maps are those of
\* a scan of the other files alone.
C13_UnreadableFileSkipped ==
    ScanDone =>
        /\ \A k \in 1..Len(catalog) :
              catalog[k].errorAfter # ReadsToEnd =>
                  \A n \in DOMAIN needed_csv : needed_csv[n] # catalog[k].path
        /\ DOMAIN needed_date = CatalogNames(FilesRead) \ CompletedSet
        /\ \A n \in DOMAIN needed_date :
              needed_date[n] = FirstRecord(FilesRead, n).date

\* What the code keeps of C13: a read error is not fatal, the files after the
\* failing one are scanned; and a file that raises before its first row adds
\* nothing.
ScanContinuesAfterError ==
    ScanDone =>
        /\ CatalogNames(FilesRead) \ CompletedSet \subseteq DOMAIN needed_date
        /\ \A k \in 1..Len(catalog) :
              catalog[k].errorAfter = 0 =>
                  \A n \in DOMAIN needed_csv : needed_csv[n] # catalog[k].path
\* What it does instead: the rows read before the error stay in the maps, as
\* if the file had ended where the error was raised.
Truncated(file) ==
    [file EXCEPT !.rows = RowsRead(file), !.errorAfter = ReadsToEnd]
RowsBeforeErrorKept ==
    ScanDone =>
        LET cut == [k \in 1..Len(catalog) |-> Truncated(catalog[k])]
        IN  /\ DOMAIN needed_date = CatalogNames(cut) \ CompletedSet
            /\ \A n \in DOMAIN needed_date :
                  /\ needed_date[n] = FirstRecord(cut, n).date
                  /\ needed_csv[n] = FirstRecord(cut, n).path

\* the header row a prior run writes to a ledger begins with "imgName"
IsHeaderRow(row) == row # <<>> /\ row[1] = "imgName"
\* the rows of a prior ledger after its header row, if it has one
RowsAfterOptionalHeader(csv) ==
    IF ~csv.exists \/ csv.rows = <<>> THEN <<>>
    ELSE IF IsHeaderRow(csv.rows[1]) THEN Tail(csv.rows)
    ELSE csv.rows
LedgerNames(csv) ==
    LET rows == RowsAfterOptionalHeader(csv)
    IN  {Strip(rows[k][1]) : k \in {j \in 1..Len(rows) :
                                      rows[j] # <<>> /\ rows[j][1] # ""}}
\* the names a prior run has handled: its images and the names of its ledgers
HandledBefore ==
    doneImages \cup UNION {LedgerNames(doneErrors[f]) : f \in Range(SKIP_LEDGERS)}
FilterDone == pc # "read_done"
\* C14: the completion filter returns the names of the files of the prior
\* image directory and the first column of every data row of the three prior
\* ledgers, a ledger having a header row or not; what is absent adds nothing;
\* no such name is a key of the maps of the scan.
C14_CompletionFilter ==
    /\ FilterDone => CompletedSet = HandledBefore
    /\ ScanDone => DOMAIN needed_date \cap HandledBefore = {}

\* What the code keeps of C14: the equality holds when every prior ledger that
\* has rows begins with its header row, absent directories and files add
\* nothing, and no name the filter returned is a key of the maps.
HasHeader(csv) == csv.exists /\ csv.rows # <<>> => IsHeaderRow(csv.rows[1])
CompletedWhenHeadered ==
    /\ (FilterDone /\ \A f \in Range(SKIP_LEDGERS) : HasHeader(doneErrors[f]))
           => CompletedSet = HandledBefore
    /\ (FilterDone /\ doneImages = {}
                   /\ \A f \in Range(SKIP_LEDGERS) : ~doneErrors[f].exists)
           => CompletedSet = {}
    /\ ScanDone => DOMAIN needed_date \cap CompletedSet = {}
\* What it does instead: the first row of a ledger is dropped whatever it is.
FirstRowAlwaysDropped ==
    FilterDone =>
        skipped_names =
            UNION {{Strip(DataRows(doneErrors[f])[k][1]) :
                       k \in {j \in 1..Len(DataRows(doneErrors[f])) :
                                /\ DataRows(doneErrors[f])[j] # <<>>
                                /\ DataRows(doneErrors[f])[j][1] # ""}} :
                   f \in Range(SKIP_LEDGERS)}

\* the loop is past the name: its iteration has ended
PassedNames == {remaining[k] : k \in {j \in 1..Len(remaining) : j < idx}}
\* shutil.copy2 was called for the name and raised
CopyFailed(n) == n \in copyEvents \ copyDone
\* the names the loop classifies missing
ToBeMissing == {n \in PassedNames : PathsOf(n) = <<>> \/ CopyFailed(n)}
RowsFor(rows, n) == {k \in 1..Len(rows) : rows[k][1] = n}
\* the run has put a file of that name into the output image directory
CreatedByRun(n) == n \in copyEvents /\ imagesOut[n].exists
\* the name has one row in the missing list, and in the ledger once written
OneMissingRow(n) ==
    /\ Cardinality(RowsFor(missing, n)) = 1
    /\ \A k \in RowsFor(missing, n) : missing[k] = <<n, needed_csv[n]>>
    /\ pc = "done" =>
          LET rows == DataRows(errorsOut[CANNOT_BE_FOUND_CSV])
          IN  /\ Cardinality(RowsFor(rows, n)) = 1
              /\ \A k \in RowsFor(rows, n) : rows[k] = <<n, needed_csv[n]>>
\* C15: a remaining name with no located file, or whose copy raised, has
\* exactly one Missing row [name, origin catalog file]; the run has put no
\* file of that name into the output image directory and has submitted no
\* stamp command for it.
C15_MissingClassification ==
    \A n \in ToBeMissing :
        /\ OneMissingRow(n)
        /\ ~CreatedByRun(n)
        /\ n \notin Range(submits)

\* What the code keeps of C15: the row, once, and no stamp command; a name
\* with no located file is not copied; a file left by a copy that raised is a
\* truncated one.
MissingRowAndNoStamp ==
    \A n \in ToBeMissing :
        /\ OneMissingRow(n)
        /\ n \notin Range(submits)
        /\ PathsOf(n) = <<>> => n \notin copyEvents
        /\ CreatedByRun(n) => imagesOut[n].partial

\* a step of the copy step (lines 211-218) for a destination that exists
CopyStepOnExisting ==
    /\ pc = "copy"
    /\ pc' \in {"parse", "loop"}
    /\ imagesOut[CurrentName].exists
C16_SkipStep ==
    CopyStepOnExisting =>
        /\ imagesOut' = imagesOut
        /\ copyLog' = copyLog
        /\ pc' = "parse"
        /\ exc' = "none"
        /\ missing' = missing
        /\ idx' = idx
\* C16: when the destination exists as the copy step runs, the step leaves
\* the destination as it is (shutil.copy2 is not called), raises nothing, and
\* goes on to the date of the same item: no Missing row is added.
C16_ExistingDestinationSkip == [][C16_SkipStep]_vars
\* the copy step has just passed over an existing destination
C16_Witness ==
    /\ pc = "parse"
    /\ imagesOut[CurrentName].exists
    /\ CurrentName \in copyDone \ copyEvents
    /\ Keys(missing) = {}

\* the paths directly inside the run's output image directory
OutputImagePaths == {ImagesOutPath(n) : n \in ItemNames}
\* the paths of the files under the export folders
ExportPaths == {ExportPath(k, n) : k \in 1..MaxPaths, n \in ItemNames}
C17_Targets ==
    /\ \A c \in copyLog : c.dst \in OutputImagePaths /\ c.src \in ExportPaths
    /\ FilesOf(sent) \subseteq OutputImagePaths
    /\ stampLog \subseteq OutputImagePaths
\* what is under the export folders and under NEW_IMAGES_SORTED stays as it
\* is while main() runs (between two runs the user adds the outputs to it)
C17_SourcesUnchanged ==
    /\ \A n \in ItemNames : exportFiles[n] # -1 => exportFiles'[n] = exportFiles[n]
    /\ catalog' = catalog
    /\ runNo' = runNo => doneImages' = doneImages /\ doneErrors' = doneErrors
\* C17: every destination of a copy and every file a stamp command names is a
\* file directly inside the output image directory of the run; the run writes,
\* stamps and deletes nothing under the export folders or under the output
\* directory of the prior run.
C17_SourceImmutability == []C17_Targets /\ [][C17_SourcesUnchanged]_vars
\* a run that copied an export file and had it stamped
C17_Witness ==
    /\ pc = "done"
    /\ copyLog # {}
    /\ stampLog # {}
    /\ processedSet # {}

\* main() has returned after its loop: the reports are written
CompletedWithWork == pc = "done" /\ remaining # <<>>
\* a row that names an item
IsDataRow(row) == row # <<>> /\ row[1] \in ItemNames
\* the ledger begins with a header row and has n rows after it
HeaderThenRows(csv, n) ==
    /\ csv.exists
    /\ csv.rows # <<>>
    /\ ~IsDataRow(csv.rows[1])
    /\ Len(csv.rows) = 1 + n
    /\ \A k \in 2..Len(csv.rows) : IsDataRow(csv.rows[k])
\* the ledger is the fixed header row followed by the rows of the list
HeaderThenList(csv, header, list) ==
    /\ csv.exists
    /\ csv.rows # <<>>
    /\ csv.rows[1] = header
    /\ DataRows(csv) = list
    /\ \A k \in 1..Len(list) : IsDataRow(list[k]) /\ Len(list[k]) = Len(header)
    /\ Len(list) = Cardinality(Keys(list))
ThreeLedgersHeaded ==
    /\ HeaderThenList(errorsOut[CANNOT_BE_FOUND_CSV], MISSING_HEADER, missing)
    /\ HeaderThenList(errorsOut[BAD_DATE_CSV], BAD_DATE_HEADER, bad_date)
    /\ HeaderThenList(errorsOut[EXIFTOOL_FAILED_CSV], EXIFTOOL_FAILED_HEADER,
                      exiftool_failed)
\* C18 as stated: when main() has returned after its loop, each of the four
\* ledgers begins with a header row, followed by one row per classified name.
C18_FourLedgersHeaded ==
    CompletedWithWork =>
        /\ ThreeLedgersHeaded
        /\ HeaderThenRows(errorsOut[DUPLICATES_CSV], Cardinality(DuplicatedNames))
\* C18 as amended: when main() has returned after its loop, the Missing,
\* BadDate and StampFailed ledgers each are their fixed header row followed by
\* one row per name classified so; the Duplicates ledger has no header row, it
\* holds one row per duplicated name and nothing else.
C18_ThreeLedgersHeaded ==
    CompletedWithWork =>
        /\ ThreeLedgersHeaded
        /\ errorsOut[DUPLICATES_CSV].exists
        /\ Len(errorsOut[DUPLICATES_CSV].rows) = Cardinality(DuplicatedNames)
        /\ \A k \in 1..Len(errorsOut[DUPLICATES_CSV].rows) :
              IsDataRow(errorsOut[DUPLICATES_CSV].rows[k])
        /\ DuplicateKeys = DuplicatedNames
\* a finished run with a duplicated name and a missing one
C18_Witness ==
    /\ CompletedWithWork
    /\ DuplicatedNames # {}
    /\ Keys(missing) # {}

\* the names a stamp command of this run was carried out for
StampedNames == {n \in ItemNames : ImagesOutPath(n) \in stampLog}
\* C19: a name a stamp command was submitted for has had its copy step end
\* without error and its raw date parsed; no name has two stamp commands; every
\* name copied or stamped is a key of the maps of the scan, none is a name the
\* completion filter returned.
C19_StepOrder ==
    /\ \A n \in Range(submits) :
          /\ n \in copyDone
          /\ n \in DOMAIN needed_date
          /\ ParseIcloudDate(needed_date[n]).ok
    /\ Len(submits) = Cardinality(Range(submits))
    /\ StampedNames \subseteq Range(submits)
    /\ copyEvents \cup copyDone \cup Range(submits) \subseteq RemainingSet
    /\ (copyEvents \cup copyDone \cup Range(submits)) \cap CompletedSet = {}
\* a finished run over two remaining names that stamped one and found the
\* date of the other bad
C19_Witness ==
    /\ pc = "done"
    /\ Len(remaining) = 2
    /\ Len(submits) = 1
    /\ Len(bad_date) = 1

==========================================================================
